---- MODULE Spec2Model ----
(***************************************************************************)
(* Model of src/fundamentsl2.py: the economic-impact calculation engine     *)
(* (time value of money, flood damage by depth, productivity loss by        *)
(* depth, baseline aggregation, per-configuration economics, ranking and    *)
(* climate escalation).                                                     *)
(*                                                                          *)
(* The engine is a library of pure functions.  A behaviour of the model is  *)
(* one caller session: Init draws the function to call and its inputs      *)
(* from bounded sets, and one action per function applies it and appends    *)
(* the outcome (a returned value or a raised exception) to `out`.           *)
(*                                                                          *)
(* Number representation (Python floats are modelled by exact rationals;   *)
(* the rounding error of binary floating point is not modelled):            *)
(*   - money is counted in thousands of EUR (every amount in the source is *)
(*     a whole multiple of 1000);                                           *)
(*   - a depth is counted in tenths of a metre (0.5 m = 5, 1.5 m = 15);     *)
(*   - a fraction such as 0.25 is counted in hundredths (25);               *)
(*   - a result that is not an integer in these units is kept as an exact   *)
(*     fraction, a numerator over a stated denominator.                     *)
(***************************************************************************)
EXTENDS Integers, Sequences, FiniteSets

VARIABLES op, args, out, configs

vars == <<op, args, out, configs>>

(***************************************************************************)
(* Bounds of the input sets.                                                *)
(***************************************************************************)
MaxArea   == 2      \* flooded areas -1 .. MaxArea (m2)
MaxDepth  == 17     \* depths -1 .. MaxDepth (tenths of a metre)
MaxGdp    == 2      \* GDP in zone 0 .. MaxGdp
MaxAnnual == 2      \* annual values -MaxAnnual .. MaxAnnual
MaxRate   == 3      \* discount rates 0 .. MaxRate (percent)
MaxYears  == 2      \* years 1 .. MaxYears
MaxMoney  == 3      \* benefits / reported NPV of a synthetic configuration
MaxCost   == 1      \* cost components of a synthetic configuration
MaxLen    == 3      \* length of a list of configurations to rank

(***************************************************************************)
(* Outcomes of a call: a returned value, or an exception raised by a       *)
(* built-in operation (dict subscript, `/`) and propagated to the caller.   *)
(* The source defines no exception type of its own and has no try/except.   *)
(***************************************************************************)
Return(v) == [status |-> "ok", value |-> v]
Raise(e)  == [status |-> e]

BuiltinExceptions == {"KeyError", "ZeroDivisionError"}

Pow(b, n) == LET p[k \in 0..n] == IF k = 0 THEN 1 ELSE b * p[k - 1] IN p[n]

\* Python's round(n / d, digits) for d > 0: the quotient in units of
\* 10^-digits, rounded to nearest; an exact tie goes to the even neighbour.
RoundDiv(n, d) ==
    LET q == n \div d
        r == n % d
    IN  IF 2 * r < d THEN q
        ELSE IF 2 * r > d THEN q + 1
        ELSE IF q % 2 = 0 THEN q ELSE q + 1

round(n, d, digits) == RoundDiv(n * Pow(10, digits), d)

(***************************************************************************)
(* 1. Baseline parameters.                                                  *)
(***************************************************************************)
DISCOUNT_RATE == 3      \* 0.03, in percent
HORIZON_YEARS == 30

(***************************************************************************)
(* 3. npv_annuity: present value of a level annual cash flow.  The rate is  *)
(* in percent, so 1 + rate is (100 + rate) / 100.  The value returned is    *)
(* the exact fraction num / den.                                            *)
(***************************************************************************)
\* annual_value * (1 - (1 + rate) ** -years) / rate; Python's `/ rate`
\* raises ZeroDivisionError when rate is 0.
annuity_closed_form(annual_value, rate, years) ==
    IF rate = 0
    THEN Raise("ZeroDivisionError")
    ELSE Return([num |-> annual_value * 100
                           * (Pow(100 + rate, years) - Pow(100, years)),
                 den |-> rate * Pow(100 + rate, years)])

\* The function without its `if rate == 0` guard.
npv_annuity_unguarded(annual_value, rate, years) ==
    annuity_closed_form(annual_value, rate, years)

npv_annuity(annual_value, rate, years) ==
    IF rate = 0
    THEN Return([num |-> annual_value * years, den |-> 1])
    ELSE annuity_closed_form(annual_value, rate, years)

\* npv_annuity for a rate > 0 and an annual value num / den >= 0, where the
\* exact fraction does not fit the model's integers (30 years at 3 %):
\* evaluated in fixed point with outward rounding, it gives whole numbers
\* lo <= hi that enclose annual_value * (1 - (1 + rate) ** -years) / rate.
\*   d_lo, d_hi  enclose (1 + rate) ** -years, in units of 10^-7
\*   f_lo, f_hi  enclose (1 - (1 + rate) ** -years) / rate, in hundredths
npv_annuity_enclosure(num, den, rate, years) ==
    LET CeilDiv(a, b) == -((-a) \div b)
        d_lo[k \in 0..years] ==
            IF k = 0 THEN 10000000 ELSE (d_lo[k - 1] * 100) \div (100 + rate)
        d_hi[k \in 0..years] ==
            IF k = 0 THEN 10000000 ELSE CeilDiv(d_hi[k - 1] * 100, 100 + rate)
        f_lo == (10000000 - d_hi[years]) \div (1000 * rate)
        f_hi == CeilDiv(10000000 - d_lo[years], 1000 * rate)
    IN  [lo |-> (num * f_lo) \div (den * 100),
         hi |-> CeilDiv(num * f_hi, den * 100)]

(***************************************************************************)
(* 5. Baseline: cost of inaction.  Amounts in thousands of EUR; the         *)
(* expected number of events (3.2) in tenths.                               *)
(***************************************************************************)
\* The baseline returning the annuity cross-check as its NPV instead of the
\* report's figure.
compute_baseline_returns_derived ==
    LET direct             == 47320
        productivity       == 31800
        restoration        == (direct * 25) \div 10      \* direct * 2.5
        annual_pollution   == 42
        pollution_30yr     == annual_pollution * HORIZON_YEARS
        total_undiscounted == direct + productivity + restoration
                              + pollution_30yr
        \* annual_avg = total_undiscounted / HORIZON_YEARS;
        \* npv_derived = npv_annuity(annual_avg), a cross-check
        npv_derived        == npv_annuity_enclosure(total_undiscounted, HORIZON_YEARS,
                                                    DISCOUNT_RATE, HORIZON_YEARS)
        expected_events    == 32
    IN  Return([expected_flood_events    |-> expected_events,
                direct_flood_damage_30yr |-> direct,
                productivity_losses_30yr |-> productivity,
                restoration_costs_30yr   |-> restoration,
                annual_pollution_cost    |-> annual_pollution,
                total_undiscounted_30yr  |-> total_undiscounted,
                npv_damages              |-> npv_derived.lo])

compute_baseline ==
    LET direct             == 47320
        productivity       == 31800
        restoration        == (direct * 25) \div 10      \* direct * 2.5
        annual_pollution   == 42
        pollution_30yr     == annual_pollution * HORIZON_YEARS
        total_undiscounted == direct + productivity + restoration
                              + pollution_30yr
        \* annual_avg = total_undiscounted / HORIZON_YEARS;
        \* npv_derived = npv_annuity(annual_avg), a cross-check
        npv_derived        == npv_annuity_enclosure(total_undiscounted, HORIZON_YEARS,
                                                    DISCOUNT_RATE, HORIZON_YEARS)
        expected_events    == 32
    IN  Return([expected_flood_events    |-> expected_events,
                direct_flood_damage_30yr |-> direct,
                productivity_losses_30yr |-> productivity,
                restoration_costs_30yr   |-> restoration,
                annual_pollution_cost    |-> annual_pollution,
                total_undiscounted_30yr  |-> total_undiscounted,
                npv_damages              |-> 124200])

\* The breakdown with the pollution share taken from one year's cost
\* instead of the 30-year cost.
baseline_cost_breakdown_annual_pollution(bl) ==
    LET total == bl.total_undiscounted_30yr
    IN  IF total = 0
        THEN Raise("ZeroDivisionError")
        ELSE Return([restoration  |-> round(bl.restoration_costs_30yr * 100, total, 1),
                     direct       |-> round(bl.direct_flood_damage_30yr * 100, total, 1),
                     productivity |-> round(bl.productivity_losses_30yr * 100, total, 1),
                     pollution    |-> round(bl.annual_pollution_cost * 100, total, 1)])

\* Percentage shares of the 30-year undiscounted total, in tenths of a
\* percent (round(x / total * 100, 1)).  Keys: "Infrastructure Restoration
\* (%)", "Direct Flood Damage (%)", "Productivity Losses (%)", "Pollution
\* Costs (%)".  `/ total` raises ZeroDivisionError when total is 0.
baseline_cost_breakdown(bl) ==
    LET total        == bl.total_undiscounted_30yr
        pollution_30 == bl.annual_pollution_cost * HORIZON_YEARS
    IN  IF total = 0
        THEN Raise("ZeroDivisionError")
        ELSE Return([restoration  |-> round(bl.restoration_costs_30yr * 100, total, 1),
                     direct       |-> round(bl.direct_flood_damage_30yr * 100, total, 1),
                     productivity |-> round(bl.productivity_losses_30yr * 100, total, 1),
                     pollution    |-> round(pollution_30 * 100, total, 1)])

(***************************************************************************)
(* 6. Flood damage.  density in EUR / m2, damage fractions in hundredths.   *)
(***************************************************************************)
DAMAGE_TABLE ==
    [Residential    |-> [density |-> 800,  pct_05 |-> 25, pct_15 |-> 60],
     Commercial     |-> [density |-> 1500, pct_05 |-> 35, pct_15 |-> 75],
     Industrial     |-> [density |-> 1200, pct_05 |-> 30, pct_15 |-> 70],
     Infrastructure |-> [density |-> 2000, pct_05 |-> 40, pct_15 |-> 80]]

\* A lookup that falls back to an all-zero row for an unknown key
\* (DAMAGE_TABLE.get(land_use, (0, 0, 0))).
damage_lookup_default(land_use) ==
    IF land_use \in DOMAIN DAMAGE_TABLE
    THEN Return(DAMAGE_TABLE[land_use])
    ELSE Return([density |-> 0, pct_05 |-> 0, pct_15 |-> 0])

\* DAMAGE_TABLE[land_use]: a dict subscript raises KeyError on a missing key.
damage_lookup(land_use) ==
    IF land_use \in DOMAIN DAMAGE_TABLE
    THEN Return(DAMAGE_TABLE[land_use])
    ELSE Raise("KeyError")

\* The curve with the ramp below 0.5 m scaled by depth / 1.0.
damage_pct_ramp_per_metre(pct_05, pct_15, depth) ==
    IF depth <= 5 THEN pct_05 * depth
    ELSE IF depth <= 15 THEN pct_05 * 10 + (pct_15 - pct_05) * (depth - 5)
    ELSE pct_15 * 10

\* The curve without the cap: the interpolation line continued above 1.5 m.
damage_pct_uncapped(pct_05, pct_15, depth) ==
    IF depth <= 5 THEN pct_05 * (2 * depth)
    ELSE pct_05 * 10 + (pct_15 - pct_05) * (depth - 5)

\* The curve with the interpolation taken over the whole depth instead of
\* the part above 0.5 m.
damage_pct_interp_from_zero(pct_05, pct_15, depth) ==
    IF depth <= 5 THEN pct_05 * (2 * depth)
    ELSE IF depth <= 15 THEN pct_05 * 10 + (pct_15 - pct_05) * depth
    ELSE pct_15 * 10

\* The damage fraction in thousandths, for a depth in tenths of a metre:
\*   depth_m / 0.5          is (2 * depth) tenths,
\*   (depth_m - 0.5) / 1.0  is (depth - 5) tenths.
damage_pct(pct_05, pct_15, depth) ==
    IF depth <= 5 THEN pct_05 * (2 * depth)
    ELSE IF depth <= 15 THEN pct_05 * 10 + (pct_15 - pct_05) * (depth - 5)
    ELSE pct_15 * 10

\* flooded_area_m2 * density * pct, in EUR: the fraction num / 1000.
flood_damage(land_use, flooded_area_m2, depth) ==
    LET row == damage_lookup(land_use)
    IN  IF row.status # "ok"
        THEN row
        ELSE Return([num |-> flooded_area_m2 * row.value.density
                             * damage_pct(row.value.pct_05, row.value.pct_15, depth),
                     den |-> 1000])

(***************************************************************************)
(* 7. Productivity loss.  Tiers (max_depth, disruption, duration_days):     *)
(* max_d in tenths of a metre (999 m = 9990), disrupt in hundredths.        *)
(***************************************************************************)
PRODUCTIVITY_TIERS ==
    << [max_d |-> 5,    disrupt |-> 5,  days |-> 30],
       [max_d |-> 15,   disrupt |-> 15, days |-> 90],
       [max_d |-> 9990, disrupt |-> 25, days |-> 180] >>

\* gdp_in_zone * disrupt * (days / 365): the fraction num / (100 * 365).
\* `tier` records where the scan ended: the index of the first tier with
\* depth <= max_d, or 0 when the loop ran off the list and the fallback
\* return was taken.
tier_loss(gdp_in_zone, disrupt, days, tier) ==
    [status |-> "ok",
     value  |-> [num |-> gdp_in_zone * disrupt * days, den |-> 100 * 365],
     tier   |-> tier]

productivity_loss(gdp_in_zone, depth) ==
    LET n == Len(PRODUCTIVITY_TIERS)
        \* scan[k]: the loop with k tiers left to try, tier n - k + 1 next
        scan[k \in 0..n] ==
            LET i == n - k + 1 IN
            IF k = 0
            THEN tier_loss(gdp_in_zone, 25, 180, 0)     \* fallback
            ELSE IF depth <= PRODUCTIVITY_TIERS[i].max_d
                 THEN tier_loss(gdp_in_zone, PRODUCTIVITY_TIERS[i].disrupt,
                                PRODUCTIVITY_TIERS[i].days, i)
                 ELSE scan[k - 1]
    IN  scan[n]

(***************************************************************************)
(* 8. The four strategic configurations (NbSConfig).  Amounts in thousands  *)
(* of EUR, benefit_cost_ratio in hundredths.  The descriptive fields        *)
(* (units_description, the reduction percentages, payback_years) take no    *)
(* part in any computation and are left out.                                *)
(***************************************************************************)
NbSConfig(name, dd, pa, ra, ts, tb, ic, mc, npv, bcr) ==
    [name                      |-> name,
     direct_damage_avoided_npv |-> dd,
     productivity_avoided_npv  |-> pa,
     restoration_avoided_npv   |-> ra,
     treatment_savings_npv     |-> ts,
     total_benefits_npv        |-> tb,
     implementation_cost       |-> ic,
     maintenance_cost_npv      |-> mc,
     net_present_value         |-> npv,
     benefit_cost_ratio        |-> bcr]

CONFIG_BIOSWALES ==
    NbSConfig("Distributed Bioswales", 11200, 8100, 28000, 0, 47300,
              10000, 9300, 28000, 245)

CONFIG_BUFFERS ==
    NbSConfig("Riparian Buffer Network", 13700, 9400, 34300, 3800, 61200,
              10000, 10400, 40800, 300)

CONFIG_WETLANDS ==
    NbSConfig("Strategic Wetlands", 19800, 13200, 49500, 0, 82500,
              10000, 7800, 64700, 463)

CONFIG_HYBRID ==
    NbSConfig("Hybrid Approach", 16400, 11300, 41000, 2600, 71300,
              10000, 8900, 52400, 377)

ALL_CONFIGS == <<CONFIG_BIOSWALES, CONFIG_BUFFERS, CONFIG_WETLANDS, CONFIG_HYBRID>>

\* The audit with the ratio taken over the implementation cost alone.
verify_config_economics_impl_only(cfg) ==
    LET total_cost  == cfg.implementation_cost + cfg.maintenance_cost_npv
        derived_npv == cfg.total_benefits_npv - total_cost
    IN  IF cfg.implementation_cost = 0
        THEN Raise("ZeroDivisionError")
        ELSE Return([total_cost_eur   |-> total_cost,
                     derived_npv_eur  |-> derived_npv,
                     reported_npv_eur |-> cfg.net_present_value,
                     npv_diff_eur     |-> derived_npv - cfg.net_present_value,
                     derived_bcr      |-> round(cfg.total_benefits_npv,
                                                cfg.implementation_cost, 2),
                     reported_bcr     |-> cfg.benefit_cost_ratio])

\* The audit with the maintenance cost left out of the total cost.
verify_config_economics_no_maintenance(cfg) ==
    LET total_cost  == cfg.implementation_cost
        derived_npv == cfg.total_benefits_npv - total_cost
    IN  IF total_cost = 0
        THEN Raise("ZeroDivisionError")
        ELSE Return([total_cost_eur   |-> total_cost,
                     derived_npv_eur  |-> derived_npv,
                     reported_npv_eur |-> cfg.net_present_value,
                     npv_diff_eur     |-> derived_npv - cfg.net_present_value,
                     derived_bcr      |-> round(cfg.total_benefits_npv, total_cost, 2),
                     reported_bcr     |-> cfg.benefit_cost_ratio])

\* The audit "reconciling" the report: the reported figures are overwritten
\* by the derived ones in the result.
verify_config_economics_reconciled(cfg) ==
    LET total_cost  == cfg.implementation_cost + cfg.maintenance_cost_npv
        derived_npv == cfg.total_benefits_npv - total_cost
    IN  IF total_cost = 0
        THEN Raise("ZeroDivisionError")
        ELSE Return([total_cost_eur   |-> total_cost,
                     derived_npv_eur  |-> derived_npv,
                     reported_npv_eur |-> derived_npv,
                     npv_diff_eur     |-> 0,
                     derived_bcr      |-> round(cfg.total_benefits_npv, total_cost, 2),
                     reported_bcr     |-> round(cfg.total_benefits_npv, total_cost, 2)])

\* Re-derive NPV and BCR from the stated components.  The division
\* total_benefits_npv / total_cost is unguarded: Python raises
\* ZeroDivisionError when total_cost is 0 and the function returns nothing.
\* derived_bcr is round(derived_bcr, 2), in hundredths.
verify_config_economics(cfg) ==
    LET total_cost  == cfg.implementation_cost + cfg.maintenance_cost_npv
        derived_npv == cfg.total_benefits_npv - total_cost
    IN  IF total_cost = 0
        THEN Raise("ZeroDivisionError")
        ELSE Return([total_cost_eur   |-> total_cost,
                     derived_npv_eur  |-> derived_npv,
                     reported_npv_eur |-> cfg.net_present_value,
                     npv_diff_eur     |-> derived_npv - cfg.net_present_value,
                     derived_bcr      |-> round(cfg.total_benefits_npv, total_cost, 2),
                     reported_bcr     |-> cfg.benefit_cost_ratio])

(***************************************************************************)
(* 10. Climate scenario escalation.  Factors in thousandths, damages in     *)
(* thousands of EUR, multipliers in hundredths.                             *)
(***************************************************************************)
CLIMATE_SCENARIOS ==
    [n \in {"Current", "Moderate Change", "Severe Change"} |->
        CASE n = "Current" ->
                [precip_intensity_factor |-> 1000, event_freq_factor |-> 1000,
                 baseline_npv_damages |-> 124200]
          [] n = "Moderate Change" ->
                [precip_intensity_factor |-> 1200, event_freq_factor |-> 1333,
                 baseline_npv_damages |-> 178000]
          [] n = "Severe Change" ->
                [precip_intensity_factor |-> 1400, event_freq_factor |-> 2000,
                 baseline_npv_damages |-> 265000]]

\* The ratios truncated to whole numbers (`//` in place of `/`).
climate_escalation_multipliers_floordiv ==
    LET current == CLIMATE_SCENARIOS["Current"].baseline_npv_damages
    IN  Return([name \in DOMAIN CLIMATE_SCENARIOS |->
                  100 * (CLIMATE_SCENARIOS[name].baseline_npv_damages \div current)])

climate_escalation_multipliers ==
    LET current == CLIMATE_SCENARIOS["Current"].baseline_npv_damages
    IN  Return([name \in DOMAIN CLIMATE_SCENARIOS |->
                  round(CLIMATE_SCENARIOS[name].baseline_npv_damages, current, 2)])

(***************************************************************************)
(* 11a. Business-interruption savings.  Amounts in thousands of EUR.        *)
(***************************************************************************)
DAILY_REVENUE_PER_FIRM == 50    \* EUR 50,000 / day
EXPOSED_FIRMS == 50

INTERRUPTION_DAYS ==
    [s \in {"Strategic Wetlands", "Distributed Bioswales"} |->
        IF s = "Strategic Wetlands" THEN 85 ELSE 35]

\* The breakdown with the computed figures replaced by the report's.
business_interruption_savings_reconciled ==
    Return([strategy \in DOMAIN INTERRUPTION_DAYS |->
              [days_avoided_per_year      |-> INTERRUPTION_DAYS[strategy],
               daily_revenue_per_firm_eur |-> DAILY_REVENUE_PER_FIRM,
               computed_per_firm_eur      |-> 42,
               computed_total_eur         |-> 2100,
               reported_per_firm_eur      |-> 42,
               reported_total_annual_eur  |-> 2100]])

business_interruption_savings ==
    Return([strategy \in DOMAIN INTERRUPTION_DAYS |->
              LET days         == INTERRUPTION_DAYS[strategy]
                  raw_per_firm == DAILY_REVENUE_PER_FIRM * days
                  raw_total    == raw_per_firm * EXPOSED_FIRMS
              IN  [days_avoided_per_year      |-> days,
                   daily_revenue_per_firm_eur |-> DAILY_REVENUE_PER_FIRM,
                   computed_per_firm_eur      |-> raw_per_firm,
                   computed_total_eur         |-> raw_total,
                   reported_per_firm_eur      |-> 42,
                   reported_total_annual_eur  |-> 2100]])

(***************************************************************************)
(* 12. Ranking by net present value:                                        *)
(*   sorted(configs, key=lambda c: c.net_present_value, reverse=True)       *)
(* Python's sorted is stable, and with reverse=True it still keeps equal    *)
(* elements in their original order: the list is reversed, sorted           *)
(* ascending by a stable sort, and reversed again.                          *)
(***************************************************************************)
Reverse(s) == [i \in 1..Len(s) |-> s[Len(s) + 1 - i]]

\* x inserted into the ascending list s after every element whose key is
\* not greater (a stable insertion).
InsertByNPV(s, x) ==
    LET after == {i \in 1..Len(s) : s[i].net_present_value > x.net_present_value}
        pos   == IF after = {} THEN Len(s) + 1
                 ELSE CHOOSE i \in after : \A j \in after : i <= j
    IN  SubSeq(s, 1, pos - 1) \o <<x>> \o SubSeq(s, pos, Len(s))

SortAscByNPV(s) ==
    LET acc[k \in 0..Len(s)] ==
            IF k = 0 THEN <<>> ELSE InsertByNPV(acc[k - 1], s[k])
    IN  acc[Len(s)]

\* sorted(configs, key=...)[::-1]: descending, but equal keys come out in
\* reverse of their original order.
rank_by_npv_reversed_ascending(cfgs) == Reverse(SortAscByNPV(cfgs))

rank_by_npv(cfgs) == Reverse(SortAscByNPV(Reverse(cfgs)))

(***************************************************************************)
(* The inputs a caller may pass.                                            *)
(***************************************************************************)
\* The keys of DAMAGE_TABLE and one key that is not in it.
LandUses == DOMAIN DAMAGE_TABLE \cup {"Agricultural"}

Areas == -1..MaxArea

\* Depths around the breakpoints 0.5 m and 1.5 m, one negative depth, and
\* depths at and beyond the last tier's ceiling of 999 m.
Depths == (-1..MaxDepth) \cup {9990, 9991}

\* Configurations other than the four fixed ones: small amounts, a total
\* cost that may be 0, reported figures that need not match the derived.
SyntheticConfigs ==
    { NbSConfig("Synthetic", tb, 0, 0, 0, tb, ic, mc, npv, bcr) :
        tb \in 0..MaxMoney, ic \in 0..MaxCost, mc \in 0..MaxCost,
        npv \in 0..MaxMoney, bcr \in {100, 150} }

\* Lists to rank: the i-th element is named after its position, so that
\* equal NPVs stay distinguishable.
ListNames == <<"P1", "P2", "P3", "P4", "P5", "P6">>

RankLists ==
    UNION { { [i \in 1..n |-> NbSConfig(ListNames[i], 0, 0, 0, 0, 0, 1, 0, npv[i], 100)] :
                npv \in [1..n -> 0..2] } : n \in 0..MaxLen }

\* Lists to audit one configuration after the other: the module's own
\* list, and every pair of synthetic configurations reporting NPV 0 and
\* BCR 1.00.
AuditLists ==
    LET pool == { c \in SyntheticConfigs :
                    c.net_present_value = 0 /\ c.benefit_cost_ratio = 100 }
    IN  {ALL_CONFIGS} \cup { <<a, b>> : a \in pool, b \in pool }

\* pairs of depths: a caller samples the damage curve at two depths
FloodDamageArgs ==
    [land_use : LandUses, area : Areas, depths : Depths \X Depths]

ProductivityLossArgs == [gdp_in_zone : 0..MaxGdp, depth : Depths]

NpvAnnuityArgs ==
    [annual_value : (-MaxAnnual)..MaxAnnual, rate : 0..MaxRate, years : 1..MaxYears]

(***************************************************************************)
(* The state: the function the caller calls (op), its arguments (args),     *)
(* the outcomes of the calls made so far (out), and the module's list of    *)
(* configurations (configs).                                                *)
(***************************************************************************)
Init ==
    /\ configs = ALL_CONFIGS
    /\ out = <<>>
    /\ \/ op = "flood_damage" /\ args \in FloodDamageArgs
       \/ op = "productivity_loss" /\ args \in ProductivityLossArgs
       \/ op = "npv_annuity" /\ args \in NpvAnnuityArgs
       \/ op = "verify_config_economics"
          /\ args \in [cfg : {configs[i] : i \in 1..Len(configs)} \cup SyntheticConfigs]
       \/ op = "verify_all" /\ args \in [cfgs : AuditLists]
       \/ op = "rank_by_npv" /\ args \in [configs : {configs} \cup RankLists]
       \/ op = "climate_escalation_multipliers" /\ args = [none |-> TRUE]
       \/ op = "baseline" /\ args = [none |-> TRUE]
       \/ op = "business_interruption_savings" /\ args = [none |-> TRUE]

\* An exception ends the caller's session: nothing catches it.
Running == IF out = <<>> THEN TRUE ELSE out[Len(out)].status = "ok"

\* flood_damage(land_use, area, depth) at the next depth of the pair
FloodDamage ==
    /\ op = "flood_damage" /\ Running /\ Len(out) < 2
    /\ out' = Append(out, flood_damage(args.land_use, args.area,
                                       args.depths[Len(out) + 1]))
    /\ UNCHANGED <<op, args, configs>>

ProductivityLoss ==
    /\ op = "productivity_loss" /\ out = <<>>
    /\ out' = <<productivity_loss(args.gdp_in_zone, args.depth)>>
    /\ UNCHANGED <<op, args, configs>>

NpvAnnuity ==
    /\ op = "npv_annuity" /\ out = <<>>
    /\ out' = <<npv_annuity(args.annual_value, args.rate, args.years)>>
    /\ UNCHANGED <<op, args, configs>>

VerifyConfigEconomics ==
    /\ op = "verify_config_economics" /\ out = <<>>
    /\ out' = <<verify_config_economics(args.cfg)>>
    /\ UNCHANGED <<op, args, configs>>

\* for cfg in ALL_CONFIGS: v = verify_config_economics(cfg)
VerifyAllConfigs ==
    /\ op = "verify_all" /\ Running /\ Len(out) < Len(args.cfgs)
    /\ out' = Append(out, verify_config_economics(args.cfgs[Len(out) + 1]))
    /\ UNCHANGED <<op, args, configs>>

RankByNPV ==
    /\ op = "rank_by_npv" /\ out = <<>>
    /\ out' = <<Return(rank_by_npv(args.configs))>>
    /\ UNCHANGED <<op, args, configs>>

ClimateEscalationMultipliers ==
    /\ op = "climate_escalation_multipliers" /\ out = <<>>
    /\ out' = <<climate_escalation_multipliers>>
    /\ UNCHANGED <<op, args, configs>>

\* bl = compute_baseline()
ComputeBaseline ==
    /\ op = "baseline" /\ out = <<>>
    /\ out' = <<compute_baseline>>
    /\ UNCHANGED <<op, args, configs>>

\* baseline_cost_breakdown(bl), on the record compute_baseline() returned
BaselineCostBreakdown ==
    /\ op = "baseline" /\ Len(out) = 1 /\ Running
    /\ out' = Append(out, baseline_cost_breakdown(out[1].value))
    /\ UNCHANGED <<op, args, configs>>

BusinessInterruptionSavings ==
    /\ op = "business_interruption_savings" /\ out = <<>>
    /\ out' = <<business_interruption_savings>>
    /\ UNCHANGED <<op, args, configs>>

Next ==
    \/ FloodDamage
    \/ ProductivityLoss
    \/ NpvAnnuity
    \/ VerifyConfigEconomics
    \/ VerifyAllConfigs
    \/ RankByNPV
    \/ ClimateEscalationMultipliers
    \/ ComputeBaseline
    \/ BaselineCostBreakdown
    \/ BusinessInterruptionSavings

Spec == Init /\ [][Next]_vars

(***************************************************************************)
(* Properties.                                                              *)
(***************************************************************************)
Abs(x) == IF x < 0 THEN -x ELSE x

\* v (in units of 1 / scale) is n / d rounded to the nearest unit, d > 0
IsRounded(v, n, d, scale) == 2 * Abs(v * d - scale * n) <= d

Called(f) == op = f /\ out # <<>>

Returned(f) == Called(f) /\ out[1].status = "ok"

\* C1 as stated: verify_config_economics returns total_cost =
\* implementation_cost + maintenance_cost_npv, derived_npv =
\* total_benefits_npv - total_cost, npv_diff = derived_npv - reported NPV and
\* derived_bcr equal to the quotient total_benefits_npv / total_cost itself;
\* on Strategic Wetlands total_cost = 17,800,000, derived_npv = 64,700,000,
\* npv_diff = 0 and derived_bcr = 4.63 = the reported BCR.
C1_DerivedBcrIsExactQuotient ==
    Returned("verify_config_economics") =>
        LET cfg == args.cfg
            r   == out[1].value
        IN  /\ r.total_cost_eur = cfg.implementation_cost + cfg.maintenance_cost_npv
            /\ r.derived_npv_eur = cfg.total_benefits_npv - r.total_cost_eur
            /\ r.npv_diff_eur = r.derived_npv_eur - cfg.net_present_value
            /\ r.derived_bcr * r.total_cost_eur = 100 * cfg.total_benefits_npv
            /\ cfg = CONFIG_WETLANDS =>
                  /\ r.total_cost_eur = 17800
                  /\ r.derived_npv_eur = 64700
                  /\ r.npv_diff_eur = 0
                  /\ r.derived_bcr = 463
                  /\ r.derived_bcr = cfg.benefit_cost_ratio

\* C1 (amended): whenever verify_config_economics returns, total_cost =
\* implementation_cost + maintenance_cost_npv, derived_npv =
\* total_benefits_npv - total_cost, npv_diff = derived_npv - reported NPV and
\* derived_bcr is total_benefits_npv / total_cost rounded to 2 decimals; on
\* Strategic Wetlands total_cost = 17,800,000, derived_npv = 64,700,000,
\* npv_diff = 0 and derived_bcr = 4.63 = the reported BCR.
C1_VerifyDerivesRoundedBcr ==
    Returned("verify_config_economics") =>
        LET cfg == args.cfg
            r   == out[1].value
        IN  /\ r.total_cost_eur = cfg.implementation_cost + cfg.maintenance_cost_npv
            /\ r.derived_npv_eur = cfg.total_benefits_npv - r.total_cost_eur
            /\ r.npv_diff_eur = r.derived_npv_eur - cfg.net_present_value
            /\ IsRounded(r.derived_bcr, cfg.total_benefits_npv, r.total_cost_eur, 100)
            /\ cfg = CONFIG_WETLANDS =>
                  /\ r.total_cost_eur = 17800
                  /\ r.derived_npv_eur = 64700
                  /\ r.npv_diff_eur = 0
                  /\ r.derived_bcr = 463
                  /\ r.derived_bcr = cfg.benefit_cost_ratio

C1_Witness ==
    /\ Returned("verify_config_economics")
    /\ args.cfg = CONFIG_WETLANDS
    /\ out[1].value.derived_bcr = 463

\* C2: the ranking is a permutation of the input in which NPV never
\* increases and configurations with equal NPV keep their original
\* relative order; ALL_CONFIGS ranks as Strategic Wetlands, Hybrid
\* Approach, Riparian Buffer Network, Distributed Bioswales.
C2_RankIsStableDescending ==
    Called("rank_by_npv") =>
        LET input  == args.configs
            ranked == out[1].value
            n      == Len(input)
        IN  /\ out[1].status = "ok"
            /\ Len(ranked) = n
            /\ \E p \in [1..n -> 1..n] :
                  /\ \A i, j \in 1..n : i # j => p[i] # p[j]
                  /\ \A i \in 1..n : ranked[i] = input[p[i]]
                  /\ \A i, j \in 1..n : i < j =>
                        /\ ranked[i].net_present_value >= ranked[j].net_present_value
                        /\ ranked[i].net_present_value = ranked[j].net_present_value
                              => p[i] < p[j]
            /\ input = ALL_CONFIGS =>
                  [i \in 1..n |-> ranked[i].name]
                     = <<"Strategic Wetlands", "Hybrid Approach",
                         "Riparian Buffer Network", "Distributed Bioswales">>

C2_Witness ==
    /\ Called("rank_by_npv")
    /\ Len(args.configs) = 3
    /\ args.configs[1].net_present_value = 1
    /\ args.configs[2].net_present_value = 2
    /\ args.configs[3].net_present_value = 1
    /\ [i \in 1..3 |-> out[1].value[i].name] = <<"P2", "P1", "P3">>

\* C3: for a land use of DAMAGE_TABLE, an area >= 0 and depths in
\* [0, 0.5], flood_damage is non-negative and non-decreasing in depth, is 0
\* at depth 0, and is area x density x pct05 at depth 0.5.
C3_RampBelowHalfMetre ==
    ( /\ Called("flood_damage")
      /\ args.land_use \in DOMAIN DAMAGE_TABLE
      /\ args.area >= 0
      /\ args.depths[1] \in 0..5 ) =>
        LET row == DAMAGE_TABLE[args.land_use]
            d1  == args.depths[1]
            d2  == args.depths[2]
        IN  /\ out[1].status = "ok"
            /\ out[1].value.den = 1000
            /\ out[1].value.num >= 0
            /\ d1 = 0 => out[1].value.num = 0
            \* area x density x pct05, pct05 in hundredths, over 1000
            /\ d1 = 5 => out[1].value.num = args.area * row.density * row.pct_05 * 10
            /\ (Len(out) = 2 /\ d2 \in 0..5 /\ d1 <= d2) =>
                  /\ out[2].status = "ok"
                  /\ out[2].value.den = 1000
                  /\ out[1].value.num <= out[2].value.num

C3_Witness ==
    /\ Called("flood_damage")
    /\ args.land_use = "Commercial"
    /\ args.area = 2
    /\ args.depths = <<3, 5>>
    /\ Len(out) = 2
    /\ out[1].value.num = 2 * 1500 * 210
    /\ out[2].value.num = 2 * 1500 * 350

\* C4: for a land use of DAMAGE_TABLE, any area and any depth > 1.5,
\* flood_damage equals flood_damage at depth 1.5, which is
\* area x density x pct15.
C4_CapAboveOneAndAHalfMetres ==
    ( /\ Called("flood_damage")
      /\ args.land_use \in DOMAIN DAMAGE_TABLE
      /\ Len(out) = 2
      /\ args.depths[1] > 15
      /\ args.depths[2] = 15 ) =>
        LET row == DAMAGE_TABLE[args.land_use]
        IN  /\ out[1].status = "ok" /\ out[2].status = "ok"
            /\ out[1].value = out[2].value
            /\ out[2].value.den = 1000
            /\ out[2].value.num = args.area * row.density * row.pct_15 * 10

C4_Witness ==
    /\ Called("flood_damage")
    /\ args.land_use = "Residential"
    /\ args.area = 2
    /\ args.depths = <<17, 15>>
    /\ Len(out) = 2
    /\ out[1].value.num = 2 * 800 * 600

\* C5: productivity_loss is decided by the first tier, in list order, whose
\* ceiling is >= depth, and returns gdp x disruption x (days / 365):
\* (0.05, 30) for depth <= 0.5, (0.15, 90) for 0.5 < depth <= 1.5,
\* (0.25, 180) for depth > 1.5; and for every depth >= 0 the scan ends with
\* a matching tier.
C5_ScanAlwaysMatchesATier ==
    ( Called("productivity_loss") /\ args.depth >= 0 ) =>
        LET r    == out[1]
            d    == args.depth
            want == IF d <= 5 THEN 1 ELSE IF d <= 15 THEN 2 ELSE 3
        IN  /\ r.status = "ok"
            /\ r.value.den = 100 * 365
            /\ r.value.num = args.gdp_in_zone * PRODUCTIVITY_TIERS[want].disrupt
                                              * PRODUCTIVITY_TIERS[want].days
            /\ r.tier = want
            /\ r.tier \in 1..Len(PRODUCTIVITY_TIERS)
            /\ d <= PRODUCTIVITY_TIERS[r.tier].max_d
            /\ \A i \in 1..(r.tier - 1) : d > PRODUCTIVITY_TIERS[i].max_d

\* C6: for each of the three climate scenarios the multiplier is the
\* scenario's baseline_npv_damages over the Current scenario's, rounded to
\* 2 decimals; Current is exactly 1.00 and Severe Change is 2.13.
C6_ClimateMultipliers ==
    Called("climate_escalation_multipliers") =>
        LET m       == out[1].value
            current == CLIMATE_SCENARIOS["Current"].baseline_npv_damages
        IN  /\ out[1].status = "ok"
            /\ DOMAIN m = {"Current", "Moderate Change", "Severe Change"}
            /\ \A name \in DOMAIN m :
                  IsRounded(m[name], CLIMATE_SCENARIOS[name].baseline_npv_damages,
                            current, 100)
            /\ m["Current"] = 100
            /\ m["Severe Change"] = 213

C6_Witness ==
    /\ Called("climate_escalation_multipliers")
    /\ out[1].value["Severe Change"] = 213
    /\ out[1].value["Moderate Change"] = 143

\* the four shares of a breakdown, in tenths of a percent
ShareSum(b) == b.restoration + b.direct + b.productivity + b.pollution

\* C7: baseline_cost_breakdown of the record compute_baseline() returned
\* gives four shares (restoration, direct damage, productivity, 30-year
\* pollution) of the undiscounted total, each rounded to 1 decimal, whose
\* sum is within 0.2 of 100.0.
C7_BreakdownSumsToHundred ==
    ( op = "baseline" /\ Len(out) = 2 ) =>
        LET bl    == out[1].value
            b     == out[2].value
            total == bl.total_undiscounted_30yr
        IN  /\ out[2].status = "ok"
            /\ DOMAIN b = {"restoration", "direct", "productivity", "pollution"}
            /\ IsRounded(b.restoration, 100 * bl.restoration_costs_30yr, total, 10)
            /\ IsRounded(b.direct, 100 * bl.direct_flood_damage_30yr, total, 10)
            /\ IsRounded(b.productivity, 100 * bl.productivity_losses_30yr, total, 10)
            /\ IsRounded(b.pollution,
                         100 * bl.annual_pollution_cost * HORIZON_YEARS, total, 10)
            /\ Abs(ShareSum(b) - 1000) <= 2

C7_Witness ==
    /\ op = "baseline"
    /\ Len(out) = 2
    /\ out[2].value = [restoration |-> 595, direct |-> 238,
                       productivity |-> 160, pollution |-> 6]

\* C8: for every annual value x and every number of years n >= 1,
\* npv_annuity(x, 0, n) returns exactly x * n, and no division by the rate
\* takes place (such a division would raise ZeroDivisionError).
C8_ZeroRateAnnuity ==
    ( Called("npv_annuity") /\ args.rate = 0 ) =>
        /\ out[1].status = "ok"
        /\ out[1].value = [num |-> args.annual_value * args.years, den |-> 1]

C8_Witness ==
    /\ Called("npv_annuity")
    /\ args.rate = 0
    /\ args.annual_value = 2
    /\ args.years = 2
    /\ out[1].value.num = 4

\* C9: flood_damage with a land-use key that is not in DAMAGE_TABLE fails,
\* for every area and depth, with the lookup's error (Python's KeyError)
\* propagated to the caller; no damage value is returned.
C9_UnknownLandUseRaises ==
    ( Called("flood_damage") /\ args.land_use \notin DOMAIN DAMAGE_TABLE ) =>
        /\ Len(out) = 1
        /\ out[1].status = "KeyError"
        /\ "value" \notin DOMAIN out[1]

C9_Witness ==
    /\ Called("flood_damage")
    /\ args.land_use = "Agricultural"
    /\ args.area = 1
    /\ args.depths[1] = 10
    /\ out[1].status = "KeyError"

\* C10: verify_config_economics on a configuration whose total cost is 0
\* ends in an explicit DivisionByZero failure or a defined fallback, with no
\* BCR in a result record; no raw numeric exception reaches the caller.
C10_ZeroCostIsGuarded ==
    ( /\ Called("verify_config_economics")
      /\ args.cfg.implementation_cost + args.cfg.maintenance_cost_npv = 0 ) =>
        /\ out[1].status \notin BuiltinExceptions
        /\ out[1].status = "ok" => "derived_bcr" \notin DOMAIN out[1].value

\* C11: flood_damage never silently produces a negative damage: for a land
\* use of DAMAGE_TABLE, a call with a negative depth or a negative flooded
\* area is either rejected with an error or returns a value >= 0.
C11_NoSilentNegativeDamage ==
    ( /\ Called("flood_damage")
      /\ args.land_use \in DOMAIN DAMAGE_TABLE
      /\ (args.area < 0 \/ args.depths[1] < 0) ) =>
        \/ out[1].status # "ok"
        \/ out[1].value.num >= 0

\* the configuration the i-th call of an audit session was made on
AuditedConfig(i) ==
    IF op = "verify_config_economics" THEN args.cfg ELSE args.cfgs[i]

\* every result returned so far carries the configuration's reported
\* figures as they are, and the module's list is what it was at the start
ReportedFiguresKept ==
    op \in {"verify_config_economics", "verify_all"} =>
        /\ configs = ALL_CONFIGS
        /\ \A i \in 1..Len(out) :
              out[i].status = "ok" =>
                 /\ out[i].value.reported_npv_eur = AuditedConfig(i).net_present_value
                 /\ out[i].value.reported_bcr = AuditedConfig(i).benefit_cost_ratio

\* C12: verify_config_economics is a pure audit: no call changes an
\* NbSConfig record (the module's list or the record passed in), and each
\* result's reported_npv_eur and reported_bcr equal the configuration's
\* reported fields, also when the derived values differ from them.
C12_VerifyIsPureAudit ==
    /\ [][configs' = configs /\ args' = args]_vars
    /\ []ReportedFiguresKept

C12_Witness ==
    /\ op = "verify_all"
    /\ Len(out) = 2
    /\ out[2].status = "ok"
    /\ out[2].value.npv_diff_eur # 0
    /\ out[2].value.derived_bcr # out[2].value.reported_bcr
    /\ out[2].value.reported_npv_eur = args.cfgs[2].net_present_value
    /\ configs = ALL_CONFIGS

\* the raw arithmetic and the report's figures, side by side, per strategy
RawArithmeticBesideReported(r) ==
    /\ DOMAIN r = DOMAIN INTERRUPTION_DAYS
    /\ \A s \in DOMAIN r :
          /\ r[s].days_avoided_per_year = INTERRUPTION_DAYS[s]
          /\ r[s].computed_per_firm_eur = DAILY_REVENUE_PER_FIRM * INTERRUPTION_DAYS[s]
          /\ r[s].computed_total_eur = r[s].computed_per_firm_eur * EXPOSED_FIRMS
          /\ r[s].reported_per_firm_eur = 42
          /\ r[s].reported_total_annual_eur = 2100
          \* not reconciled: the two pairs of figures differ and both are there
          /\ r[s].computed_per_firm_eur # r[s].reported_per_firm_eur
          /\ r[s].computed_total_eur # r[s].reported_total_annual_eur

\* C13 as stated: per strategy the result holds computed_per_firm =
\* daily revenue x days avoided and computed_total = computed_per_firm x
\* exposed firms beside the report's figures, unreconciled; and for
\* Strategic Wetlands the computed value is about EUR 3.57M (3.57M to two
\* decimals, whichever of the two computed figures is meant) against the
\* reported EUR 2.1M.
C13_WetlandsComputedIsAbout357 ==
    Called("business_interruption_savings") =>
        LET r == out[1].value
            w == r["Strategic Wetlands"]
        IN  /\ out[1].status = "ok"
            /\ RawArithmeticBesideReported(r)
            /\ \E v \in {w.computed_per_firm_eur, w.computed_total_eur} :
                  Abs(v - 3570) <= 5
            /\ w.reported_total_annual_eur = 2100

\* C13 (amended): as stated, except that for Strategic Wetlands the
\* computed figures are EUR 4.25M per firm (50,000 x 85) and EUR 212.5M in
\* total (x 50 firms), against the reported EUR 42,000 per firm and
\* EUR 2.1M in total.
C13_RawArithmeticExposed ==
    Called("business_interruption_savings") =>
        LET r == out[1].value
            w == r["Strategic Wetlands"]
        IN  /\ out[1].status = "ok"
            /\ RawArithmeticBesideReported(r)
            /\ w.computed_per_firm_eur = 4250
            /\ w.computed_total_eur = 212500
            /\ w.reported_per_firm_eur = 42
            /\ w.reported_total_annual_eur = 2100

C13_Witness ==
    /\ Called("business_interruption_savings")
    /\ out[1].value["Strategic Wetlands"].computed_total_eur = 212500
    /\ out[1].value["Distributed Bioswales"].computed_total_eur = 87500

\* the cross-check main prints: npv_annuity(bl.total_undiscounted_30yr /
\* HORIZON_YEARS), as an enclosure in thousands of EUR
NpvCrossCheck(bl) ==
    npv_annuity_enclosure(bl.total_undiscounted_30yr, HORIZON_YEARS,
                          DISCOUNT_RATE, HORIZON_YEARS)

\* C14: compute_baseline() returns restoration_costs_30yr = 2.5 x
\* direct_flood_damage_30yr, total_undiscounted_30yr = direct + productivity
\* + restoration + annual_pollution_cost x 30, and npv_damages = 124,200,000,
\* the report's figure, which is not the annuity cross-check value (about
\* 129.8M): the two differ.
C14_BaselineReturnsReportedNpv ==
    ( op = "baseline" /\ out # <<>> ) =>
        LET bl == out[1].value
        IN  /\ out[1].status = "ok"
            /\ 10 * bl.restoration_costs_30yr = 25 * bl.direct_flood_damage_30yr
            /\ bl.total_undiscounted_30yr
                 = bl.direct_flood_damage_30yr + bl.productivity_losses_30yr
                   + bl.restoration_costs_30yr
                   + bl.annual_pollution_cost * HORIZON_YEARS
            /\ bl.npv_damages = 124200
            /\ NpvCrossCheck(bl).lo <= NpvCrossCheck(bl).hi
            /\ ~ ( NpvCrossCheck(bl).lo <= bl.npv_damages
                   /\ bl.npv_damages <= NpvCrossCheck(bl).hi )

C14_Witness ==
    /\ op = "baseline"
    /\ out # <<>>
    /\ out[1].value.direct_flood_damage_30yr = 47320
    /\ out[1].value.restoration_costs_30yr = 118300
    /\ out[1].value.total_undiscounted_30yr = 198680
    /\ NpvCrossCheck(out[1].value).lo > 129000
    /\ NpvCrossCheck(out[1].value).hi < 130000

\* C15: for a land use of DAMAGE_TABLE and an area >= 0, flood_damage is
\* non-decreasing in depth over all depths >= 0 and has no jump at the
\* breakpoints: on 0.5 < depth <= 1.5 it is area x density x (pct05 +
\* (pct15 - pct05) x (depth - 0.5)); at depth 0.5 the ramp gives pct05, which
\* is the interpolation's value there; at depth 1.5 the interpolation gives
\* pct15, which is the cap; and the result never exceeds area x density x
\* pct15.
C15_MonotoneContinuousCurve ==
    ( /\ Called("flood_damage")
      /\ args.land_use \in DOMAIN DAMAGE_TABLE
      /\ args.area >= 0
      /\ args.depths[1] >= 0 ) =>
        LET row    == DAMAGE_TABLE[args.land_use]
            d1     == args.depths[1]
            d2     == args.depths[2]
            unit   == args.area * row.density
            interp == row.pct_05 * 10 + (row.pct_15 - row.pct_05) * (d1 - 5)
        IN  /\ out[1].status = "ok"
            /\ out[1].value.den = 1000
            /\ (5 <= d1 /\ d1 <= 15) => out[1].value.num = unit * interp
            /\ d1 = 5 => out[1].value.num = unit * row.pct_05 * 10
            /\ d1 >= 15 => out[1].value.num = unit * row.pct_15 * 10
            /\ out[1].value.num <= unit * row.pct_15 * 10
            /\ (Len(out) = 2 /\ d1 <= d2) =>
                  /\ out[2].status = "ok"
                  /\ out[2].value.den = 1000
                  /\ out[1].value.num <= out[2].value.num

C15_Witness ==
    /\ Called("flood_damage")
    /\ args.land_use = "Industrial"
    /\ args.area = 1
    /\ args.depths = <<10, 16>>
    /\ Len(out) = 2
    /\ out[1].value.num = 1200 * 500
    /\ out[2].value.num = 1200 * 700

\* C16: each of the four fixed configurations is internally consistent:
\* total_benefits_npv is the sum of its four benefit components,
\* verify_config_economics reports npv_diff_eur = 0, and derived_bcr
\* (rounded to 2 decimals) equals the reported benefit_cost_ratio.
C16_FixedConfigsConsistent ==
    ( op = "verify_all" /\ args.cfgs = configs ) =>
        /\ configs = ALL_CONFIGS
        /\ \A i \in 1..Len(configs) :
              configs[i].total_benefits_npv
                 = configs[i].direct_damage_avoided_npv
                   + configs[i].productivity_avoided_npv
                   + configs[i].restoration_avoided_npv
                   + configs[i].treatment_savings_npv
        /\ \A i \in 1..Len(out) :
              /\ out[i].status = "ok"
              /\ out[i].value.npv_diff_eur = 0
              /\ out[i].value.derived_npv_eur = configs[i].net_present_value
              /\ out[i].value.derived_bcr = configs[i].benefit_cost_ratio
              /\ out[i].value.derived_bcr = out[i].value.reported_bcr

C16_Witness ==
    /\ op = "verify_all"
    /\ args.cfgs = ALL_CONFIGS
    /\ Len(out) = 4
    /\ [i \in 1..4 |-> out[i].value.derived_bcr] = <<245, 300, 463, 377>>
    /\ \A i \in 1..4 : out[i].value.npv_diff_eur = 0

====
